---- MODULE Spec2Model ----
(***************************************************************************)
(* The Kinde-gated OpenAI streaming gateway (src/index.ts): one handler,   *)
(* fetch, that admits a request, authorizes it (development bypass or the  *)
(* identity provider's entitlement check) and relays it to the completion  *)
(* API.  The handler keeps no state across requests, so the model runs one *)
(* request at a time; the configuration (env) is fixed per deployment.     *)
(*                                                                         *)
(* Strings the code takes apart (the Authorization header, tokens, the     *)
(* provider domain, the secret) are sequences of one-character strings;    *)
(* strings it only copies or compares are TLA+ strings.  The request body  *)
(* is a sequence of bytes, a decoded text a sequence of code points.       *)
(***************************************************************************)
EXTENDS Integers, Sequences, FiniteSets, TLC

VARIABLES
    env,         \* Env: KINDE_DOMAIN, OPENAI_API_KEY, ALLOWED_ORIGIN, DEV_PRO_TOKEN
    pc,          \* where the handler is: idle, fetch, awaitKinde, relay, awaitUpstream, done, threw
    request,     \* the inbound Request: method, headers, body (bytes)
    inspected,   \* the parts of the request the handler has read so far
    userAccessToken, \* fetch's local, "" split from the Authorization header
    kindeCalls,  \* requests sent to the identity provider during this request
    entRes,      \* the identity provider's answer: status, raw body
    entFound,    \* whether the provider's body lists ai_preprocessing anywhere
    openaiCalls, \* requests sent to the completion API during this request
    upstream,    \* the completion API's answer: status, headers, body
    outcome,     \* which return statement ended the handler
    response     \* the Response the handler returned

vars == << env, pc, request, inspected, userAccessToken, kindeCalls, entRes,
           entFound, openaiCalls, upstream, outcome, response >>

---------------------------------------------------------------------------
(* Bounds of the model. *)

\* longest text after the scheme word "Bearer" in an Authorization header
MaxTail == 3
\* longest request body, in units (a character's encoding or one stray byte)
MaxBodyUnits == 1

---------------------------------------------------------------------------
(* JavaScript values. *)

\* null / undefined where a string is expected
null == "<null>"
\* null / undefined where a character sequence is expected
nullSeq == << "<null>" >>

\* JavaScript truthiness of an optional string: null, undefined and "" are falsy
Truthy(s) == s # null /\ s # ""
TruthySeq(s) == s # nullSeq /\ s # << >>

\* a || b || c on optional strings
Or3(a, b, c) == IF Truthy(a) THEN a ELSE IF Truthy(b) THEN b ELSE c

RECURSIVE SeqsUpTo(_, _)
SeqsUpTo(S, n) ==
    IF n = 0 THEN { << >> }
    ELSE LET shorter == SeqsUpTo(S, n - 1)
         IN  shorter \cup { Append(s, x) : s \in shorter, x \in S }

\* String.prototype.startsWith
startsWith(s, prefix) ==
    /\ Len(s) >= Len(prefix)
    /\ SubSeq(s, 1, Len(prefix)) = prefix

\* String.prototype.split(sep) for a one-character separator
RECURSIVE split(_, _)
split(s, sep) ==
    IF \A i \in 1..Len(s) : s[i] # sep THEN << s >>
    ELSE LET i == CHOOSE j \in 1..Len(s) :
                      s[j] = sep /\ \A k \in 1..(j - 1) : s[k] # sep
         IN  << SubSeq(s, 1, i - 1) >> \o split(SubSeq(s, i + 1, Len(s)), sep)

Bearer == << "B", "e", "a", "r", "e", "r", " " >>

---------------------------------------------------------------------------
(* The configurations and the inputs the model draws from. *)

KindeDomains == { << "k", ".", "i", "o" >>,
                  << "h", "t", "t", "p", "s", ":", "/", "/", "k", ".", "i", "o" >> }
\* the secret; no character of it is in a caller's alphabet
ApiKey == << "s", "k", "-", "1" >>
AllowedOrigins == { null, "", "https://app.example" }
DevTokens == { nullSeq, << >>, << "a" >> }

Envs == [ KINDE_DOMAIN : KindeDomains, OPENAI_API_KEY : { ApiKey },
          ALLOWED_ORIGIN : AllowedOrigins, DEV_PRO_TOKEN : DevTokens ]

Methods == { "OPTIONS", "POST", "GET" }
Origins == { null, "https://client.example" }
RequestMethodHeaders == { null, "POST" }
RequestHeadersHeaders == { null, "authorization" }

\* Authorization header values: absent, another scheme, the scheme in lower
\* case, and "Bearer" followed by every text of up to MaxTail characters
TailChars == { " ", "a", "b" }
AuthorizationHeaders ==
    { nullSeq, << "B", "a", "s", "i", "c", " ", "a" >>,
      << "b", "e", "a", "r", "e", "r", " ", "a" >> }
    \cup { << "B", "e", "a", "r", "e", "r" >> \o t : t \in SeqsUpTo(TailChars, MaxTail) }

\* Request bodies, as bytes: concatenations of up to MaxBodyUnits units, a unit
\* being "{", the euro sign (E2 82 AC), a byte order mark (EF BB BF) or the
\* byte FF, which no UTF-8 text contains
BodyUnits == { << 123 >>, << 226, 130, 172 >>, << 239, 187, 191 >>, << 255 >> }
RECURSIVE Flatten(_)
Flatten(ss) == IF ss = << >> THEN << >> ELSE Head(ss) \o Flatten(Tail(ss))
RequestBodies == { Flatten(us) : us \in SeqsUpTo(BodyUnits, MaxBodyUnits) }

---------------------------------------------------------------------------
(* JSON documents of the identity provider. *)

REQUIRED_FEATURE == "ai_preprocessing"

\* a property of an element: undefined, or a string
undefined == "<undefined>"
NullItem == [ k |-> "null", key |-> undefined, feature_key |-> undefined ]
ObjItem(key, fkey) == [ k |-> "obj", key |-> key, feature_key |-> fkey ]
Items == { NullItem,
           ObjItem(REQUIRED_FEATURE, undefined),
           ObjItem(undefined, REQUIRED_FEATURE),
           ObjItem("other", undefined) }

\* a property of data: absent, null, a value that is no list, or a list
Absent == [ k |-> "absent", items |-> << >> ]
ListOf(items) == [ k |-> "list", items |-> items ]
Lists == { << >> } \cup { << x >> : x \in Items }
          \cup { << ObjItem("other", undefined), ObjItem(REQUIRED_FEATURE, undefined) >> }
FieldValues == { Absent, [ k |-> "null", items |-> << >> ],
                 [ k |-> "scalar", items |-> << >> ] }
               \cup { ListOf(l) : l \in Lists }

\* a response body: text that is no JSON, or the JSON values null, a scalar,
\* or an object whose data is absent, null, a scalar or an object
Doc(top, data, e, f, p) ==
    [ top |-> top, data |-> data, entitlements |-> e, features |-> f, plans |-> p ]
EmptyObject == Doc("obj", "absent", Absent, Absent, Absent)
Unparsable == Doc("unparsable", "absent", Absent, Absent, Absent)
ProviderBodies ==
    { Doc(t, "absent", Absent, Absent, Absent) : t \in { "unparsable", "null", "scalar", "obj" } }
    \cup { Doc("obj", d, Absent, Absent, Absent) : d \in { "null", "scalar", "obj" } }
    \cup { Doc("obj", "obj", e, f, p) : e \in FieldValues, f \in FieldValues, p \in FieldValues }

\* entRes.json().catch(() => ({}))
json(raw) == IF raw.top = "unparsable" THEN EmptyObject ELSE raw

\* payload?.data?.[name]
dataProp(payload, name) ==
    IF payload.top = "obj" /\ payload.data = "obj" THEN payload[name] ELSE Absent

\* a ?? b
Coalesce(a, b) == IF a.k \in { "absent", "null" } THEN b ELSE a

\* f?.key, f?.feature_key
keyOf(f) == IF f.k = "null" THEN undefined ELSE f.key
featureKeyOf(f) == IF f.k = "null" THEN undefined ELSE f.feature_key

\* hasEntitlement, were it to take any answer for an entitlement
hasEntitlementAlways(payload, key) == TRUE

\* hasEntitlement, were plans matched by feature_key as well
hasEntitlementPlansByFeatureKey(payload, key) ==
    LET features == Coalesce(dataProp(payload, "entitlements"),
                             Coalesce(dataProp(payload, "features"), ListOf(<< >>)))
        plans == Coalesce(dataProp(payload, "plans"), ListOf(<< >>))
    IN  \/ /\ features.k = "list"
           /\ \E i \in 1..Len(features.items) :
                  \/ keyOf(features.items[i]) = key
                  \/ featureKeyOf(features.items[i]) = key
        \/ /\ plans.k = "list"
           /\ \E i \in 1..Len(plans.items) :
                  \/ keyOf(plans.items[i]) = key
                  \/ featureKeyOf(plans.items[i]) = key

hasEntitlement(payload, key) ==
    LET features == Coalesce(dataProp(payload, "entitlements"),
                             Coalesce(dataProp(payload, "features"), ListOf(<< >>)))
        plans == Coalesce(dataProp(payload, "plans"), ListOf(<< >>))
    IN  \/ /\ features.k = "list"
           /\ \E i \in 1..Len(features.items) :
                  \/ keyOf(features.items[i]) = key
                  \/ featureKeyOf(features.items[i]) = key
        \/ /\ plans.k = "list"
           /\ \E i \in 1..Len(plans.items) : keyOf(plans.items[i]) = key


---------------------------------------------------------------------------
(* Headers and responses. *)

NoHeaders == [ h \in {} |-> "" ]
\* Headers.set, Headers.delete, and setting every entry of an object
SetHeader(h, k, v) == [ x \in DOMAIN h \cup { k } |-> IF x = k THEN v ELSE h[x] ]
DeleteHeader(h, k) == [ x \in DOMAIN h \ { k } |-> h[x] ]
SetAll(h, entries) ==
    [ x \in DOMAIN h \cup DOMAIN entries |-> IF x \in DOMAIN entries THEN entries[x] ELSE h[x] ]

cors(origin, e) ==
    [ h \in { "access-control-allow-origin", "access-control-allow-methods",
              "access-control-allow-headers" } |->
        CASE h = "access-control-allow-origin" -> Or3(e.ALLOWED_ORIGIN, origin, "*")
          [] h = "access-control-allow-methods" -> "POST, OPTIONS"
          [] h = "access-control-allow-headers" -> "Authorization, Content-Type" ]

\* A body: none, the text of a JSON object (its members), or a byte stream
NoBody == [ kind |-> "null", members |-> {}, message |-> << >>,
            details |-> EmptyObject, stream |-> "" ]
JsonBody(members, message, details) ==
    [ kind |-> "json", members |-> members, message |-> message,
      details |-> details, stream |-> "" ]
StreamBody(id) == [ NoBody EXCEPT !.kind = "stream", !.stream = id ]

\* new Response(body, { status, headers }): the constructor refuses a status
\* outside 200..599 and a body with a status that has none
nullBodyStatus(status) == status \in { 101, 204, 205, 304 }
NewResponse(body, status, headers) ==
    [ error |-> IF status \notin 200..599 THEN "RangeError"
                ELSE IF body.kind # "null" /\ nullBodyStatus(status) THEN "TypeError"
                ELSE "",
      status |-> status, body |-> body, headers |-> headers ]
NoResponse == [ error |-> "", status |-> 0, body |-> NoBody, headers |-> NoHeaders ]

\* Response.ok
ok(status) == status \in 200..299

\* handleOptions, were the preflight answer to carry no CORS headers
handleOptionsNoCors(req, e) ==
    IF Truthy(req.origin) /\ Truthy(req.acrm) /\ Truthy(req.acrh)
    THEN NewResponse(NoBody, 200, NoHeaders)
    ELSE NewResponse(NoBody, 200,
                     SetAll([ h \in { "allow" } |-> "POST, OPTIONS" ], cors(req.origin, e)))

handleOptions(req, e) ==
    LET headers == cors(req.origin, e)
    IN  IF Truthy(req.origin) /\ Truthy(req.acrm) /\ Truthy(req.acrh)
        THEN NewResponse(NoBody, 200, headers)
        ELSE NewResponse(NoBody, 200, SetAll([ h \in { "allow" } |-> "POST, OPTIONS" ], headers))

methodNotAllowed(req, e) ==
    NewResponse(JsonBody({ "message" }, << "Error: Expected POST request." >>, EmptyObject),
                405, cors(req.origin, e))

unauthorized(req, e) ==
    NewResponse(JsonBody({ "message" },
                         << "Error: Missing or invalid Authorization header." >>, EmptyObject),
                401, cors(req.origin, e))

---------------------------------------------------------------------------
(* The authorization gate. *)

\* authHeader?.startsWith("Bearer ")
hasBearerPrefix(authHeader) == authHeader # nullSeq /\ startsWith(authHeader, Bearer)

\* authHeader.split(" ")[1]
tokenOf(authHeader) == split(authHeader, " ")[2]

\* isDevToken, were it not to ask whether a development token is configured
isDevTokenUnguarded(token, e) == token = e.DEV_PRO_TOKEN

\* env.DEV_PRO_TOKEN && userAccessToken === env.DEV_PRO_TOKEN
isDevToken(token, e) == TruthySeq(e.DEV_PRO_TOKEN) /\ token = e.DEV_PRO_TOKEN

issuer(e) ==
    IF startsWith(e.KINDE_DOMAIN, << "h", "t", "t", "p" >>)
    THEN e.KINDE_DOMAIN
    ELSE << "h", "t", "t", "p", "s", ":", "/", "/" >> \o e.KINDE_DOMAIN

\* the request validateKindeAccess sends
entitlementsRequest(token, e) ==
    [ issuer |-> issuer(e), path |-> "/account_api/v1/entitlements",
      authorization |-> Bearer \o token, cacheTtl |-> 0 ]

\* validateKindeAccess from the provider's answer on: what it returns, and
\* through which return statement
validateKindeAccess(status, raw, e) ==
    LET entJson == json(raw)
    IN  IF ~ ok(status)
        THEN [ success |-> FALSE, branch |-> "provider_error",
               error |-> NewResponse(
                   JsonBody({ "message", "details" },
                            << "Error: Kinde Account API returned ", ToString(status) >>,
                            entJson),
                   status, cors(null, e)) ]
        ELSE IF ~ hasEntitlement(entJson, REQUIRED_FEATURE)
        THEN [ success |-> FALSE, branch |-> "403",
               error |-> NewResponse(
                   JsonBody({ "success", "message" },
                            << "Error: Permission '", REQUIRED_FEATURE, "' not found." >>,
                            EmptyObject),
                   403, cors(null, e)) ]
        ELSE [ success |-> TRUE, branch |-> "success", error |-> NoResponse ]

---------------------------------------------------------------------------
(* The relay. *)

isContinuation(b) == b \in 128..191

\* UTF-8 decoding with replacement: a byte below 80 is its character, a lead
\* byte E1..EC, EE or EF with two continuation bytes is a three-byte
\* character, and whatever starts no character becomes U+FFFD
RECURSIVE utf8Decode(_)
utf8Decode(b) ==
    IF b = << >> THEN << >>
    ELSE LET b1 == Head(b)
             lead3 == b1 \in (225..236) \cup { 238, 239 }
         IN  IF b1 < 128 THEN << b1 >> \o utf8Decode(Tail(b))
             ELSE IF lead3 /\ Len(b) >= 3 /\ isContinuation(b[2]) /\ isContinuation(b[3])
             THEN << (b1 - 224) * 4096 + (b[2] - 128) * 64 + (b[3] - 128) >>
                  \o utf8Decode(SubSeq(b, 4, Len(b)))
             ELSE IF lead3 /\ Len(b) >= 2 /\ isContinuation(b[2])
             THEN << 65533 >> \o utf8Decode(SubSeq(b, 3, Len(b)))
             ELSE << 65533 >> \o utf8Decode(Tail(b))

\* request.text(): UTF-8 decode, which drops a leading byte order mark
text(b) ==
    IF startsWith(b, << 239, 187, 191 >>)
    THEN utf8Decode(SubSeq(b, 4, Len(b)))
    ELSE utf8Decode(b)

\* the bytes fetch sends for a string body
RECURSIVE utf8Encode(_)
utf8Encode(t) ==
    IF t = << >> THEN << >>
    ELSE LET c == Head(t)
         IN  (IF c < 128 THEN << c >>
              ELSE IF c < 2048 THEN << 192 + (c \div 64), 128 + (c % 64) >>
              ELSE << 224 + (c \div 4096), 128 + ((c \div 64) % 64), 128 + (c % 64) >>)
             \o utf8Encode(Tail(t))

completionRequest(body, e) ==
    [ url |-> "https://api.openai.com/v1/chat/completions", method |-> "POST",
      authorization |-> Bearer \o e.OPENAI_API_KEY,
      contentType |-> "application/json", accept |-> "text/event-stream",
      body |-> utf8Encode(body) ]

\* relayHeaders, were Content-Encoding left in place
relayHeadersKeepEncoding(upstreamHeaders, origin, e) ==
    LET h1 == SetHeader(upstreamHeaders, "content-type", "text/event-stream; charset=utf-8")
        h2 == SetHeader(h1, "cache-control", "no-store")
    IN  SetAll(h2, cors(origin, e))

\* the headers of the relay response
relayHeaders(upstreamHeaders, origin, e) ==
    LET h1 == SetHeader(upstreamHeaders, "content-type", "text/event-stream; charset=utf-8")
        h2 == SetHeader(h1, "cache-control", "no-store")
        h3 == DeleteHeader(h2, "content-encoding")
    IN  SetAll(h3, cors(origin, e))

relayResponse(up, origin, e) ==
    NewResponse(up.body, up.status, relayHeaders(up.headers, origin, e))

\* what the completion API may answer
UpstreamHeaderValues ==
    [ h \in { "content-encoding", "content-type", "access-control-allow-origin",
              "x-request-id" } |->
        CASE h = "content-encoding" -> "gzip"
          [] h = "content-type" -> "application/json"
          [] h = "access-control-allow-origin" -> "https://other.example"
          [] h = "x-request-id" -> "req-1" ]
UpstreamHeaders ==
    { [ h \in S |-> UpstreamHeaderValues[h] ] : S \in SUBSET DOMAIN UpstreamHeaderValues }
UpstreamStatuses == { 200, 204, 500 }
UpstreamAnswers ==
    { [ status |-> s, headers |-> h,
        body |-> IF nullBodyStatus(s) THEN NoBody ELSE StreamBody("events") ] :
      s \in UpstreamStatuses, h \in UpstreamHeaders }

\* what the identity provider may answer: a status without a body has none
KindeStatuses == { 200, 204, 304, 401 }
KindeAnswers ==
    { a \in [ status : KindeStatuses, body : ProviderBodies ] :
          nullBodyStatus(a.status) => a.body = Unparsable }
NoAnswer == [ status |-> 0, body |-> Unparsable ]
NoUpstream == [ status |-> 0, headers |-> NoHeaders, body |-> NoBody ]


---------------------------------------------------------------------------
(* What an observer reads off the provider's answer: whether one of the    *)
(* three lists under data names the capability, by key, or by feature_key  *)
(* in the entitlements and features lists.                                 *)

NamedIn(field, byFeatureKey) ==
    /\ field.k = "list"
    /\ \E i \in 1..Len(field.items) :
           /\ field.items[i].k = "obj"
           /\ \/ field.items[i].key = REQUIRED_FEATURE
              \/ byFeatureKey /\ field.items[i].feature_key = REQUIRED_FEATURE

ListsCapability(raw) ==
    /\ raw.top = "obj" /\ raw.data = "obj"
    /\ \/ NamedIn(raw.entitlements, TRUE)
       \/ NamedIn(raw.features, TRUE)
       \/ NamedIn(raw.plans, FALSE)

---------------------------------------------------------------------------
(* The handler. *)

NewRequest(method, origin) ==
    [ method |-> method, origin |-> origin, acrm |-> null, acrh |-> null,
      authorization |-> nullSeq, body |-> << >> ]

Init ==
    /\ env \in Envs
    /\ pc = "idle"
    /\ request = NewRequest("GET", null)
    /\ inspected = {}
    /\ userAccessToken = << >>
    /\ kindeCalls = << >>
    /\ entRes = NoAnswer
    /\ entFound = FALSE
    /\ openaiCalls = << >>
    /\ upstream = NoUpstream
    /\ outcome = "none"
    /\ response = NoResponse

\* The dispatcher invokes fetch with a new request.
Receive ==
    /\ pc = "idle"
    /\ \E m \in Methods, o \in Origins : request' = NewRequest(m, o)
    /\ pc' = "fetch"
    /\ UNCHANGED << env, inspected, userAccessToken, kindeCalls, entRes, entFound,
                    openaiCalls, upstream, outcome, response >>

\* The invocation is over (a response went out, or the exception did); the
\* handler keeps nothing of it for the next one.
Finish ==
    /\ pc \in { "done", "threw" }
    /\ pc' = "idle"
    /\ request' = NewRequest("GET", null)
    /\ inspected' = {}
    /\ userAccessToken' = << >>
    /\ kindeCalls' = << >>
    /\ entRes' = NoAnswer
    /\ entFound' = FALSE
    /\ openaiCalls' = << >>
    /\ upstream' = NoUpstream
    /\ outcome' = "none"
    /\ response' = NoResponse
    /\ UNCHANGED env

\* fetch returns r through the return statement named by how
\* (or, when constructing r threw, the exception leaves fetch instead)
Return(r, how) ==
    /\ response' = IF r.error = "" THEN r ELSE [ NoResponse EXCEPT !.error = r.error ]
    /\ outcome' = how
    /\ pc' = IF r.error = "" THEN "done" ELSE "threw"

\* if (request.method === "OPTIONS") return handleOptions(request, env)
Options ==
    /\ pc = "fetch"
    /\ request.method = "OPTIONS"
    /\ \E m \in RequestMethodHeaders, h \in RequestHeadersHeaders :
           /\ request' = [ request EXCEPT !.acrm = m, !.acrh = h ]
           /\ Return(handleOptions(request', env), "options")
    /\ inspected' = inspected
           \cup { "Access-Control-Request-Method", "Access-Control-Request-Headers" }
    /\ UNCHANGED << env, userAccessToken, kindeCalls, entRes, entFound, openaiCalls, upstream >>

\* if (request.method !== "POST") return 405
MethodNotAllowed ==
    /\ pc = "fetch"
    /\ request.method # "OPTIONS"
    /\ request.method # "POST"
    /\ Return(methodNotAllowed(request, env), "405")
    /\ UNCHANGED << env, request, inspected, userAccessToken, kindeCalls, entRes, entFound,
                    openaiCalls, upstream >>

\* a POST whose Authorization header does not start with "Bearer "
Unauthorized ==
    /\ pc = "fetch"
    /\ request.method = "POST"
    /\ \E a \in AuthorizationHeaders :
           /\ ~ hasBearerPrefix(a)
           /\ request' = [ request EXCEPT !.authorization = a ]
    /\ inspected' = inspected \cup { "Authorization" }
    /\ Return(unauthorized(request', env), "401")
    /\ UNCHANGED << env, userAccessToken, kindeCalls, entRes, entFound, openaiCalls, upstream >>

\* a POST that presents the development token: validation is skipped
Bypass ==
    /\ pc = "fetch"
    /\ request.method = "POST"
    /\ \E a \in AuthorizationHeaders :
           /\ hasBearerPrefix(a)
           /\ isDevToken(tokenOf(a), env)
           /\ request' = [ request EXCEPT !.authorization = a ]
           /\ userAccessToken' = tokenOf(a)
    /\ inspected' = inspected \cup { "Authorization" }
    /\ pc' = "relay"
    /\ UNCHANGED << env, kindeCalls, entRes, entFound, openaiCalls, upstream, outcome, response >>

\* any other POST with a bearer token: validateKindeAccess asks the provider
CallKinde ==
    /\ pc = "fetch"
    /\ request.method = "POST"
    /\ \E a \in AuthorizationHeaders :
           /\ hasBearerPrefix(a)
           /\ ~ isDevToken(tokenOf(a), env)
           /\ request' = [ request EXCEPT !.authorization = a ]
           /\ userAccessToken' = tokenOf(a)
    /\ inspected' = inspected \cup { "Authorization" }
    /\ kindeCalls' = Append(kindeCalls, entitlementsRequest(userAccessToken', env))
    /\ pc' = "awaitKinde"
    /\ UNCHANGED << env, entRes, entFound, openaiCalls, upstream, outcome, response >>

\* The provider answers; validateKindeAccess returns and fetch either returns
\* its error or goes on to the relay.  The provider's body is dead once
\* validation has succeeded; entFound keeps what it listed.
KindeResponds ==
    /\ pc = "awaitKinde"
    /\ \E a \in KindeAnswers :
           LET validation == validateKindeAccess(a.status, a.body, env)
           IN  /\ entFound' = ListsCapability(a.body)
               /\ IF validation.success
                  THEN /\ entRes' = [ a EXCEPT !.body = Unparsable ]
                       /\ pc' = "relay"
                       /\ UNCHANGED << outcome, response >>
                  ELSE /\ entRes' = a
                       /\ Return(validation.error, validation.branch)
    /\ UNCHANGED << env, request, inspected, userAccessToken, kindeCalls, openaiCalls, upstream >>

\* const body = await request.text(); fetch(completions, ...)
Relay ==
    /\ pc = "relay"
    /\ \E b \in RequestBodies :
           /\ request' = [ request EXCEPT !.body = b ]
           /\ openaiCalls' = Append(openaiCalls, completionRequest(text(b), env))
    /\ inspected' = inspected \cup { "body" }
    /\ pc' = "awaitUpstream"
    /\ UNCHANGED << env, userAccessToken, kindeCalls, entRes, entFound, upstream, outcome,
                    response >>

\* The completion API answers and fetch returns the relay response.
UpstreamResponds ==
    /\ pc = "awaitUpstream"
    /\ \E u \in UpstreamAnswers :
           /\ upstream' = u
           /\ Return(relayResponse(u, request.origin, env), "relay")
    /\ UNCHANGED << env, request, inspected, userAccessToken, kindeCalls, entRes, entFound,
                    openaiCalls >>

Next ==
    \/ Receive
    \/ Options
    \/ MethodNotAllowed
    \/ Unauthorized
    \/ Bypass
    \/ CallKinde
    \/ KindeResponds
    \/ Relay
    \/ UpstreamResponds
    \/ Finish

Spec == Init /\ [][Next]_vars

TypeOK ==
    /\ env \in Envs
    /\ pc \in { "idle", "fetch", "awaitKinde", "relay", "awaitUpstream", "done", "threw" }
    /\ Len(kindeCalls) <= 1
    /\ Len(openaiCalls) <= 1


---------------------------------------------------------------------------
(* The properties. *)

CorsNames == { "access-control-allow-origin", "access-control-allow-methods",
               "access-control-allow-headers" }

\* the allowed origin as the interface states it: the configured one if one
\* is set, else the request's Origin if it has one, else "*"
ExpectedAllowOrigin ==
    IF Truthy(env.ALLOWED_ORIGIN) THEN env.ALLOWED_ORIGIN
    ELSE IF request.origin # null THEN request.origin
    ELSE "*"

CarriesCors(headers) ==
    /\ CorsNames \subseteq DOMAIN headers
    /\ headers["access-control-allow-origin"] = ExpectedAllowOrigin
    /\ headers["access-control-allow-methods"] = "POST, OPTIONS"
    /\ headers["access-control-allow-headers"] = "Authorization, Content-Type"

\* a bearer token: at least one character, none of them a space
IsBearerToken(t) == t # nullSeq /\ t # << >> /\ \A i \in 1..Len(t) : t[i] # " "

Authorized == pc \in { "relay", "awaitUpstream" } \/ outcome = "relay"

\* C1: the completion API is called only after the request was authorized,
\* by the development token or by a successful provider answer that lists
\* ai_preprocessing; a request that ends as preflight, 405, 401, 403 or
\* provider error has called the completion API zero times.
C1_CompletionOnlyAfterAuthorization ==
    /\ openaiCalls # << >> =>
           \/ /\ TruthySeq(env.DEV_PRO_TOKEN)
              /\ "Authorization" \in inspected
              /\ userAccessToken = env.DEV_PRO_TOKEN
           \/ /\ Len(kindeCalls) = 1
              /\ ok(entRes.status)
              /\ entFound
    /\ outcome \in { "options", "405", "401", "403", "provider_error" } =>
           openaiCalls = << >>

C1_Witness ==
    /\ pc = "done" /\ outcome = "relay"
    /\ Len(kindeCalls) = 1 /\ entFound /\ Len(openaiCalls) = 1

\* C2 (as claimed): whenever the provider answers successfully and one of
\* data.entitlements, data.features, data.plans (each a list or absent)
\* names ai_preprocessing, the request is authorized, whatever the other
\* lists hold.
C2_AnyListAuthorizes ==
    ( /\ Len(kindeCalls) = 1
      /\ ok(entRes.status)
      /\ entFound
      /\ \A f \in { entRes.body.entitlements, entRes.body.features, entRes.body.plans } :
             f.k \in { "absent", "list" } )
    => Authorized

\* C3 (as claimed): an authorized request makes exactly one completion
\* request, with the caller's body unmodified and the secret as bearer
\* credential, never the caller's token; the secret goes neither to the
\* identity provider nor into a response.
C3_RelayCarriesOriginalBody ==
    /\ openaiCalls # << >> =>
           /\ Len(openaiCalls) = 1
           /\ openaiCalls[1].body = request.body
           /\ openaiCalls[1].authorization = Bearer \o env.OPENAI_API_KEY
           /\ openaiCalls[1].authorization # Bearer \o userAccessToken
    /\ outcome = "relay" => Len(openaiCalls) = 1
    /\ \A i \in 1..Len(kindeCalls) :
           kindeCalls[i].authorization # Bearer \o env.OPENAI_API_KEY
    /\ \A h \in DOMAIN response.headers :
           response.headers[h] \notin { "sk-1", "Bearer sk-1" }

\* C4: a POST that presents exactly the configured development token (a
\* bearer token) never calls the identity provider and goes on to the relay;
\* with no development token configured (unset or empty) nothing reaches the
\* relay without a call to the identity provider.
PresentsDevToken ==
    /\ IsBearerToken(env.DEV_PRO_TOKEN)
    /\ request.method = "POST"
    /\ "Authorization" \in inspected
    /\ request.authorization = Bearer \o env.DEV_PRO_TOKEN

WellFormedNonBypass ==
    /\ request.method = "POST"
    /\ "Authorization" \in inspected
    /\ hasBearerPrefix(request.authorization)
    /\ LET t == SubSeq(request.authorization, Len(Bearer) + 1, Len(request.authorization))
       IN  IsBearerToken(t) /\ t # env.DEV_PRO_TOKEN

C5_ProviderErrorMirrored ==
    WellFormedNonBypass =>
        /\ Len(kindeCalls) = 1
        /\ kindeCalls[1].authorization = request.authorization
        /\ (entRes.status # 0 /\ ~ ok(entRes.status)) =>
               /\ pc = "done"
               /\ response.status = entRes.status
               /\ response.body.kind = "json"
               /\ "details" \in response.body.members
               /\ response.body.details =
                      (IF entRes.body = Unparsable THEN EmptyObject ELSE entRes.body)
               /\ openaiCalls = << >>

\* C6: when the provider answers successfully and no entitlement, feature
\* or plan names ai_preprocessing (fields missing, not lists, or a body that
\* is no JSON included), the gateway answers 403 with a body that names
\* ai_preprocessing, nothing throws, and the completion API is not called.
C6_NoMatchIsForbidden ==
    ( /\ Len(kindeCalls) = 1
      /\ entRes.status # 0
      /\ ok(entRes.status)
      /\ ~ entFound )
    => /\ pc = "done"
       /\ outcome = "403"
       /\ response.error = ""
       /\ response.status = 403
       /\ response.body.kind = "json"
       /\ "message" \in response.body.members
       /\ \E i \in 1..Len(response.body.message) :
              response.body.message[i] = REQUIRED_FEATURE
       /\ openaiCalls = << >>

C6_Witness ==
    /\ pc = "done" /\ outcome = "403"
    /\ entRes.status = 200
    /\ entRes.body.top = "obj" /\ entRes.body.data = "obj"
    /\ entRes.body.entitlements = ListOf(<< ObjItem("other", undefined) >>)
    /\ entRes.body.plans.k = "scalar"

\* C7: a relay response has no Content-Encoding, Content-Type
\* text/event-stream; charset=utf-8, Cache-Control no-store, the three CORS
\* headers overlaid, every other upstream header as it came, and the
\* upstream's status.
C7_RelayResponseHeaders ==
    outcome = "relay" =>
        LET h == response.headers
            kept == DOMAIN upstream.headers
                        \ ({ "content-type", "cache-control", "content-encoding" } \cup CorsNames)
        IN  /\ pc = "done"
            /\ "content-encoding" \notin DOMAIN h
            /\ DOMAIN h = kept \cup { "content-type", "cache-control" } \cup CorsNames
            /\ h["content-type"] = "text/event-stream; charset=utf-8"
            /\ h["cache-control"] = "no-store"
            /\ \A k \in kept : h[k] = upstream.headers[k]
            /\ CarriesCors(h)
            /\ response.status = upstream.status
            /\ response.body = upstream.body

C7_Witness ==
    /\ pc = "done" /\ outcome = "relay"
    /\ upstream.status = 500
    /\ DOMAIN upstream.headers = DOMAIN UpstreamHeaderValues

\* C8 (as claimed): a request whose method is neither POST nor OPTIONS is
\* answered 405 with a JSON object that has a message and with
\* Allow: POST, OPTIONS, and calls neither the provider nor the completion API.
C8_MethodNotAllowedCarriesAllow ==
    ( request.method \notin { "POST", "OPTIONS" } /\ pc \in { "done", "threw" } ) =>
        /\ pc = "done"
        /\ response.status = 405
        /\ response.body.kind = "json"
        /\ "message" \in response.body.members
        /\ "allow" \in DOMAIN response.headers
        /\ response.headers["allow"] = "POST, OPTIONS"
        /\ kindeCalls = << >>
        /\ openaiCalls = << >>

\* C9: a CORS preflight (OPTIONS with Origin, Access-Control-Request-Method
\* and Access-Control-Request-Headers) is answered without a body and with
\* the CORS headers, the Authorization header is not inspected and neither
\* the provider nor the completion API is called; its status is 200 (the
\* claim says 204).
IsPreflight ==
    /\ request.method = "OPTIONS"
    /\ request.origin # null /\ request.acrm # null /\ request.acrh # null
    /\ pc \in { "done", "threw" }

PreflightAnswer(status) ==
    /\ pc = "done"
    /\ response.status = status
    /\ response.body.kind = "null"
    /\ CarriesCors(response.headers)
    /\ "Authorization" \notin inspected
    /\ kindeCalls = << >>
    /\ openaiCalls = << >>

C9_PreflightAnswered200 == IsPreflight => PreflightAnswer(200)

C9_PreflightAnswered204 == IsPreflight => PreflightAnswer(204)

C9_Witness == IsPreflight /\ PreflightAnswer(200)

\* C10 (as claimed): every response of the gateway carries
\* Access-Control-Allow-Origin (the configured origin, else the request's
\* Origin, else "*"), Access-Control-Allow-Methods and
\* Access-Control-Allow-Headers.
C10_EveryResponseCarriesCors ==
    pc = "done" => CarriesCors(response.headers)


====
